---- MODULE Spec2Model ----
(***************************************************************************)
(* Model of the weekly schedule page (weekly_schedule, src/app.py) of the  *)
(* family dashboard.  One Streamlit script run is one atomic action: a     *)
(* click on a button or a widget change runs the script once, and a        *)
(* st.rerun() in it starts the script again with no widget triggered; the  *)
(* action ends with the pass that renders the page to its end.             *)
(*                                                                         *)
(* Dates are proleptic Gregorian ordinals (date.toordinal()); str(date)    *)
(* and the store's ISO date strings are one-to-one with them.  Times of    *)
(* day are the strings the store returns, kept as tuples of characters so  *)
(* that slicing and splitting act on the text as the code does.            *)
(***************************************************************************)
EXTENDS Integers, Sequences, FiniteSets, TLC

(***************************************************************************)
(* Bounds of the model                                                     *)
(***************************************************************************)
\* first date of the modelled calendar range (739921 = Sunday 2026-11-01)
FirstDay == 739921
\* number of dates the clock may start on; it may advance to FirstDay + DaysModelled
DaysModelled == 1
\* the week offset is kept within -MaxOffset .. MaxOffset
MaxOffset == 1
\* largest number of events in the store
MaxEvents == 3

(***************************************************************************)
(* Values                                                                  *)
(***************************************************************************)
\* Python's None
None == "None"
\* a key that is not in st.session_state
Absent == "absent"

FAMILY_A == "fam-A"
FAMILY_B == "fam-B"
Families == {FAMILY_A, FAMILY_B}

Min(a, b) == IF a <= b THEN a ELSE b
Range(s) == {s[k] : k \in 1..Len(s)}

(***************************************************************************)
(* Text                                                                    *)
(***************************************************************************)
Digits == <<"0", "1", "2", "3", "4", "5", "6", "7", "8", "9">>
\* the characters of time strings in code point order
Chars == Digits \o <<":">>
CharRank(c) == CHOOSE k \in 1..Len(Chars) : Chars[k] = c

\* f"{n:02d}" for 0 <= n <= 99
Fmt02d(n) == <<Digits[(n \div 10) + 1], Digits[(n % 10) + 1]>>
\* "HH:MM:SS" as the store returns a time column
T(h, m) == Fmt02d(h) \o <<":">> \o Fmt02d(m) \o <<":", "0", "0">>
\* a time column that is NULL in the store: the row holds None
NullTime == <<None>>

\* s[:n]
Slice(s, n) == SubSeq(s, 1, Min(n, Len(s)))
\* s.split(':')[0]
SplitColon0(s) ==
    LET cut == {k \in 1..Len(s) : s[k] = ":"}
    IN  IF cut = {} THEN s
        ELSE SubSeq(s, 1, (CHOOSE k \in cut : \A j \in cut : k <= j) - 1)

\* a <= b for strings (code point order)
RECURSIVE StrLE(_, _)
StrLE(a, b) ==
    IF a = <<>> THEN TRUE
    ELSE IF b = <<>> THEN FALSE
    ELSE IF Head(a) = Head(b) THEN StrLE(Tail(a), Tail(b))
    ELSE CharRank(Head(a)) < CharRank(Head(b))

(***************************************************************************)
(* Dates and the week window                                               *)
(***************************************************************************)
\* date.weekday(): Monday = 0 ... Sunday = 6
Weekday(d) == (d + 6) % 7

\* faulty variant: isoweekday() (Monday = 1) in place of weekday()
WeekStartIso(td, off) == td - (Weekday(td) + 1) + 7 * off

\* week_start = today - timedelta(days=today.weekday()) + timedelta(weeks=week_offset)
WeekStart(td, off) == td - Weekday(td) + 7 * off

\* faulty variant: the window ends on the next Monday
WeekEndNextMonday(ws) == ws + 7

\* week_end = week_start + timedelta(days=6)
WeekEnd(ws) == ws + 6

(***************************************************************************)
(* The store: table schedule_events                                        *)
(***************************************************************************)
\* the rows the model draws from; the store assigns the ids
EventPool ==
    << [id |-> "e1", family_id |-> FAMILY_A, person |-> "Anna",
        event_date |-> FirstDay + 1, start_time |-> T(9, 0),   end_time |-> T(10, 0)],
       [id |-> "e2", family_id |-> FAMILY_A, person |-> "Ben",
        event_date |-> FirstDay + 1, start_time |-> T(9, 30),  end_time |-> T(10, 30)],
       [id |-> "e3", family_id |-> FAMILY_A, person |-> "Anna",
        event_date |-> FirstDay + 1, start_time |-> T(11, 0),  end_time |-> T(12, 0)],
       [id |-> "e4", family_id |-> FAMILY_A, person |-> "",
        event_date |-> FirstDay,     start_time |-> T(5, 30),  end_time |-> T(6, 30)],
       [id |-> "e5", family_id |-> FAMILY_A, person |-> "Ben",
        event_date |-> FirstDay + 2, start_time |-> T(21, 15), end_time |-> T(23, 15)],
       [id |-> "e6", family_id |-> FAMILY_A, person |-> "Ben",
        event_date |-> FirstDay + 1, start_time |-> T(9, 0),   end_time |-> T(10, 0)],
       [id |-> "e7", family_id |-> FAMILY_B, person |-> "Ben",
        event_date |-> FirstDay + 1, start_time |-> T(9, 0),   end_time |-> T(10, 0)] >>

Events == Range(EventPool)

\* rows as other clients of the store leave them: a NULL start or end time, a start
\* hour no clock shows, an end before the start, a person typed with a leading
\* blank, no person
ForeignPool ==
    << [id |-> "m1", family_id |-> FAMILY_A, person |-> "Anna",
        event_date |-> FirstDay + 1, start_time |-> NullTime,  end_time |-> T(10, 0)],
       [id |-> "m2", family_id |-> FAMILY_A, person |-> "Ben",
        event_date |-> FirstDay + 2, start_time |-> T(25, 0),  end_time |-> T(26, 0)],
       [id |-> "m3", family_id |-> FAMILY_A, person |-> "Ben",
        event_date |-> FirstDay + 2, start_time |-> T(10, 0),  end_time |-> NullTime],
       [id |-> "m4", family_id |-> FAMILY_A, person |-> "Anna",
        event_date |-> FirstDay + 3, start_time |-> T(10, 0),  end_time |-> T(9, 0)],
       [id |-> "m5", family_id |-> FAMILY_A, person |-> " Anna",
        event_date |-> FirstDay + 3, start_time |-> T(12, 0),  end_time |-> T(13, 0)],
       [id |-> "m6", family_id |-> FAMILY_A, person |-> "",
        event_date |-> FirstDay + 1, start_time |-> T(9, 0),   end_time |-> T(10, 30)] >>

\* the rows of the store with foreign rows in it
StoreRows == {EventPool[1], EventPool[2]} \cup Range(ForeignPool)

\* the order of a time column, ascending: NULL sorts last
TimeLE(a, b) ==
    IF b = NullTime THEN TRUE
    ELSE IF a = NullTime THEN FALSE
    ELSE StrLE(a, b)

\* .order('event_date').order('start_time')
OrderLE(a, b) ==
    \/ a.event_date < b.event_date
    \/ a.event_date = b.event_date /\ TimeLE(a.start_time, b.start_time)

\* the rows of one family and date range, in every order the store may return them:
\* rows with equal (event_date, start_time) come in any order
RECURSIVE Orders(_)
Orders(M) ==
    IF M = {} THEN {<<>>}
    ELSE UNION { {<<m>> \o s : s \in Orders(M \ {m})}
                 : m \in {x \in M : \A y \in M : OrderLE(x, y)} }

QueryResults(rows, fam, ws, we) ==
    Orders({e \in rows : e.family_id = fam /\ ws <= e.event_date /\ e.event_date <= we})

(***************************************************************************)
(* The grid of one render                                                  *)
(***************************************************************************)
\* time_slots = [f"{h:02d}:00" for h in range(6, 23)]
FIRST_SLOT_HOUR == 6
LAST_SLOT_HOUR == 22
\* faulty variant: range(6, 24)
time_slotsThroughTwentyThree ==
    [k \in 1..(LAST_SLOT_HOUR - FIRST_SLOT_HOUR + 2) |->
        Fmt02d(k + FIRST_SLOT_HOUR - 1) \o <<":", "0", "0">>]
time_slots == [k \in 1..(LAST_SLOT_HOUR - FIRST_SLOT_HOUR + 1) |->
                  Fmt02d(k + FIRST_SLOT_HOUR - 1) \o <<":", "0", "0">>]

\* faulty variant: range(6)
DayColumnsWithoutSunday == 0..5

\* the seven day columns: for i in range(7)
DayColumns == 0..6

\* all_persons = list(set([e.get('person', '') for e in events if e.get('person')]))
AllPersons(evs) == {e.person : e \in {x \in Range(evs) : x.person # ""}}

\* faulty variant: an event without person passes every filter
PersonPassesUnassigned(e, fp) == fp = {} \/ e.person = "" \/ e.person \in fp

\* not filter_person or e.get('person') in filter_person
PersonPasses(e, fp) == fp = {} \/ e.person \in fp

\* e.get('start_time', '')[:5].split(':')[0] == time_slot[:2]
InSlot(e, slot) == SplitColon0(Slice(e.start_time, 5)) = Slice(slot, 2)

\* the condition of the list comprehension day_events of one cell
InCell(e, slot, day, fp) ==
    /\ e.event_date = day
    /\ PersonPasses(e, fp)
    /\ InSlot(e, slot)

\* faulty variant: the comprehension starts at the second event
DayEventsSkipsFirst(evs, ws, fp, k, i) ==
    LET keep(e) == InCell(e, time_slots[k], ws + i, fp)
    IN  IF evs = <<>> THEN <<>> ELSE SelectSeq(Tail(evs), keep)

\* day_events of the cell of time slot k and day column i, in the order of events
DayEvents(evs, ws, fp, k, i) ==
    LET keep(e) == InCell(e, time_slots[k], ws + i, fp)
    IN  SelectSeq(evs, keep)

\* the cells of calendar_html: one per time slot and day column
Grid(evs, ws, fp) ==
    [k \in 1..Len(time_slots) |-> [i \in DayColumns |-> DayEvents(evs, ws, fp, k, i)]]

\* building the grid raises TypeError: None[:5] on the start time of an event that
\* passed the date and person conditions of a cell (line 1205), or on the end time
\* of an event whose block is written (line 1221)
GridRaises(evs, ws, fp) ==
    \E e \in Range(evs) :
        /\ \E i \in DayColumns : e.event_date = ws + i
        /\ PersonPasses(e, fp)
        /\ \/ e.start_time = NullTime
           \/ /\ e.end_time = NullTime
              /\ \E k \in 1..Len(time_slots) : InSlot(e, time_slots[k])

\* An event block is <div class="event-block" style="background; border-left;
\* box-shadow"> holding three lines of text (time, title, person).  Neither its
\* style attribute nor the .event-block rule sets top, height, left or width: the
\* block is as high as its text and as wide as its cell, and the blocks of a cell
\* are stacked (.calendar-cell is a flex column).
EVENT_BLOCK_LINES == 3
\* the height of the block of e, in lines of text
BlockHeight(e) == EVENT_BLOCK_LINES
\* the horizontal sub-slot of the block of e in its day column, and their number
BlockLane(e) == 0
BlockLaneCount(e) == 1

(***************************************************************************)
(* State                                                                   *)
(***************************************************************************)
VARIABLES
    clock,            \* the date datetime.now() returns
    db,               \* the rows of schedule_events
    family_id,        \* st.session_state.family_id
    week_offset,      \* st.session_state.week_offset
    schedule_filter,  \* st.session_state.schedule_filter: the multiselect's value
    delete_event_id,  \* st.session_state.delete_event_id
    today,            \* the locals of the last render
    week_start,
    week_end,
    events,
    filter_person,
    load_failed,      \* the last render showed "Fehler beim Laden der Termine"
    raised,           \* the last render ended in an uncaught exception
    last_click,       \* the widget that started the last script run
    net_clicks,       \* history: next clicks minus previous clicks since the last reset
    authenticated,    \* st.session_state.authenticated
    user,             \* st.session_state.user
    login_result,     \* what the last call of login_user returned, if it was called
    shown,            \* the page the last render of main() showed
    event_title,      \* st.session_state.event_title: the title field of the form
    calls,            \* history: the store calls of the last script run, in order
    tasks             \* the status column of the rows of the table tasks

session == <<family_id, week_offset, schedule_filter, delete_event_id>>
view == <<today, week_start, week_end, events, filter_person, load_failed, raised>>
account == <<authenticated, user, login_result>>
vars == <<clock, db, session, view, last_click, net_clicks, account, shown,
          event_title, calls, tasks>>

(***************************************************************************)
(* One pass of the script                                                  *)
(***************************************************************************)
\* faulty variant: the except branch keeps the rows
LoadEventsKeepsRows(rows, fam, ws) ==
    {[events |-> q, failed |-> f] : q \in QueryResults(rows, fam, ws, WeekEnd(ws)),
                                    f \in BOOLEAN}

\* the events of the week as loaded: the query's rows, or [] when the query
\* raises or the client is missing
LoadEvents(rows, fam, ws) ==
    {[events |-> q, failed |-> FALSE] : q \in QueryResults(rows, fam, ws, WeekEnd(ws))}
        \cup {[events |-> <<>>, failed |-> TRUE]}

\* the widget state under the key schedule_filter: none while the multiselect is
\* not rendered, else its selection
NoSelection == [present |-> FALSE, value |-> {}]
Selection(names) == [present |-> TRUE, value |-> names]

\* faulty variant: default=[]
FilterValueEmptyDefault(sel, opts, ap) == IF sel.present /\ opts = ap THEN sel.value ELSE {}

\* the value st.multiselect(..., all_persons, default=all_persons, key=...) returns:
\* the stored selection while the options are those it was made for, else the default
FilterValue(sel, opts, ap) == IF sel.present /\ opts = ap THEN sel.value ELSE ap

\* what a pass that starts at week offset off renders
PassView(rows, off, sel, opts) ==
    LET td == clock
        ws == WeekStart(td, off)
    IN  { LET evs == ld.events
              ap == AllPersons(evs)
              fp == IF ap = {} THEN {} ELSE FilterValue(sel, opts, ap)
          IN  [today |-> td, week_start |-> ws, week_end |-> WeekEnd(ws),
               events |-> evs, filter_person |-> fp,
               load_failed |-> ld.failed, raised |-> GridRaises(evs, ws, fp),
               schedule_filter |-> IF ap = {} THEN NoSelection ELSE Selection(fp)]
          : ld \in LoadEvents(rows, family_id, ws) }

\* a call the script issues to the table schedule_events
StoreCall(op, arg) == [op |-> op, arg |-> arg]
\* .select('*').eq('family_id', st.session_state.family_id)...execute()
SelectCall == StoreCall("select", family_id)
\* .delete().eq('id', event_id).execute()
DeleteCall(did) == StoreCall("delete", did)

\* a pass with no delete to process
PlainPass(rows, off, sel, opts, did) ==
    { [db |-> rows, delete_event_id |-> did, view |-> v, calls |-> <<SelectCall>>]
      : v \in PassView(rows, off, sel, opts) }

\* faulty variant: delete_event_id is not cleared before the delete, and the run
\* that st.rerun() starts finds it again
DeletePassKeepsFlag(rows, off, sel, opts, did) ==
    UNION { IF v.raised
            THEN {[db |-> rows, delete_event_id |-> did, view |-> v,
                   calls |-> <<SelectCall>>]}
            ELSE { [o EXCEPT !.calls = <<SelectCall, DeleteCall(did)>> \o @
                                          \o <<DeleteCall(did)>>]
                   : o \in PlainPass({e \in rows : e.id # did}, off, sel, opts, did) }
            : v \in PassView(rows, off, sel, opts) }

\* faulty variant: no st.rerun() after the delete
DeletePassWithoutRerun(rows, off, sel, opts, did) ==
    UNION { IF v.raised
            THEN {[db |-> rows, delete_event_id |-> did, view |-> v,
                   calls |-> <<SelectCall>>]}
            ELSE {[db |-> {e \in rows : e.id # did}, delete_event_id |-> None, view |-> v,
                   calls |-> <<SelectCall, DeleteCall(did)>>],
                  [db |-> rows, delete_event_id |-> Absent, view |-> v,
                   calls |-> <<SelectCall, DeleteCall(did)>>]}
            : v \in PassView(rows, off, sel, opts) }

\* section 6: a pending delete_event_id is cleared, the row is deleted by id and
\* the script starts again; when the delete raises the key is removed.  A pass
\* whose grid raised does not come to section 6.
DeletePass(rows, off, sel, opts, did) ==
    UNION { LET ap   == AllPersons(v.events)
                sel1 == IF ap = {} THEN sel ELSE v.schedule_filter
                opt1 == IF ap = {} THEN opts ELSE ap
            IN  IF v.raised
                THEN {[db |-> rows, delete_event_id |-> did, view |-> v,
                       calls |-> <<SelectCall>>]}
                ELSE { [o EXCEPT !.calls = <<SelectCall, DeleteCall(did)>> \o @]
                       : o \in PlainPass({e \in rows : e.id # did}, off, sel1, opt1, None) }
                     \cup {[db |-> rows, delete_event_id |-> Absent, view |-> v,
                             calls |-> <<SelectCall, DeleteCall(did)>>]}
            : v \in PassView(rows, off, sel, opts) }

\* the outcomes of the pass that renders the page to its end
PassOutcomes(rows, off, sel, opts, did) ==
    IF did \notin {Absent, None}
    THEN DeletePass(rows, off, sel, opts, did)
    ELSE PlainPass(rows, off, sel, opts, did)

\* the page names of the sidebar radio, and the login page
KANBAN == "Kanban"
SHOPPING == "Einkaufsliste"
VACATION == "Ferienplanung"
SCHEDULE == "Wochenplan"
Pages == <<KANBAN, SHOPPING, VACATION, SCHEDULE>>
LOGIN_PAGE == "login"

\* the state after a script run of the weekly schedule page that ends with outcome
\* o, with the title field holding title
FinishWith(o, off, click, net, title) ==
    /\ db' = o.db
    /\ calls' = o.calls
    /\ event_title' = title
    /\ shown' = SCHEDULE
    /\ UNCHANGED <<account, tasks>>
    /\ delete_event_id' = o.delete_event_id
    /\ week_offset' = off
    /\ schedule_filter' = o.view.schedule_filter
    /\ today' = o.view.today
    /\ week_start' = o.view.week_start
    /\ week_end' = o.view.week_end
    /\ events' = o.view.events
    /\ filter_person' = o.view.filter_person
    /\ load_failed' = o.view.load_failed
    /\ raised' = o.view.raised
    /\ last_click' = click
    /\ net_clicks' = net
    /\ UNCHANGED <<clock, family_id>>

Finish(o, off, click, net) == FinishWith(o, off, click, net, event_title)

(***************************************************************************)
(* Init: the session after the first render of the page                    *)
(***************************************************************************)
\* if 'week_offset' not in st.session_state: st.session_state.week_offset = 0
INITIAL_WEEK_OFFSET == 0

\* the accounts of the model: USER_A is a member of FAMILY_A, USER_B of no family
USER_A == "user-A"
USER_B == "user-B"
Users == {USER_A, USER_B}
\* what login_user returned
RETURNED_TRUE == "True"
RETURNED_FALSE == "False"
NOT_CALLED == "not called"

\* statuses = ["To-Do", "In Progress", "Done"]
statuses == <<"To-Do", "In Progress", "Done">>
\* the rows of the table tasks
TaskIds == {"t1", "t2", "t3"}
NewTasks == [t \in TaskIds |-> statuses[1]]

\* the session of USER_A on the weekly schedule page, nothing typed into the form
SignedInOnSchedule ==
    /\ authenticated = TRUE
    /\ user = USER_A
    /\ login_result = RETURNED_TRUE
    /\ shown = SCHEDULE
    /\ event_title = ""
    /\ tasks = NewTasks

Init ==
    /\ clock \in FirstDay..(FirstDay + DaysModelled - 1)
    /\ family_id = FAMILY_A
    /\ \E rows \in SUBSET Events :
          /\ Cardinality(rows) <= MaxEvents
          /\ \E o \in PlainPass(rows, INITIAL_WEEK_OFFSET, NoSelection, {}, Absent) :
                /\ db = o.db
                /\ delete_event_id = o.delete_event_id
                /\ schedule_filter = o.view.schedule_filter
                /\ today = o.view.today
                /\ week_start = o.view.week_start
                /\ week_end = o.view.week_end
                /\ events = o.view.events
                /\ filter_person = o.view.filter_person
                /\ load_failed = o.view.load_failed
                /\ raised = o.view.raised
                /\ calls = o.calls
    /\ week_offset = INITIAL_WEEK_OFFSET
    /\ last_click = "render"
    /\ net_clicks = 0
    /\ SignedInOnSchedule

(***************************************************************************)
(* Actions: one per script run                                             *)
(***************************************************************************)
Options == AllPersons(events)

\* the page is rendered only for a session with a family, and main() calls
\* weekly_schedule only for an authenticated session whose radio is on the page
HasFamily == family_id # None /\ authenticated /\ shown = SCHEDULE

\* faulty variant: the session initialisation sets week_offset on every run
RenderResetsOffset ==
    /\ HasFamily
    /\ \E o \in PassOutcomes(db, 0, schedule_filter, Options, delete_event_id) :
          Finish(o, 0, "render", net_clicks)

\* a run no button started
Render ==
    /\ HasFamily
    /\ \E o \in PassOutcomes(db, week_offset, schedule_filter, Options, delete_event_id) :
          Finish(o, week_offset, "render", net_clicks)

\* what the title field of the form may hold
Titles == {"", "Zahnarzt"}
\* .insert(event_data).execute()
InsertCall == StoreCall("insert", family_id)

\* faulty variant: the button alone decides
InsertsWithAnyTitle(title) == TRUE

\* if st.button("Termin erstellen") and event_title:
Inserts(title) == title # ""

\* "Termin erstellen" with the title typed before: the insert, and on success
\* st.rerun()
CreateEvent ==
    /\ HasFamily
    /\ Cardinality(db) < MaxEvents
    /\ \E title \in Titles, e \in Events \ db, ok \in BOOLEAN :
          /\ e.family_id = family_id
          /\ \A x \in db : x.id # e.id
          /\ LET rows == IF Inserts(title) /\ ok THEN db \cup {e} ELSE db
                 made == IF Inserts(title) THEN <<InsertCall>> ELSE <<>>
             IN  \E o \in PassOutcomes(rows, week_offset, schedule_filter, Options,
                                       delete_event_id) :
                    FinishWith([o EXCEPT !.calls = made \o @], week_offset, "create",
                               net_clicks, title)

\* "Zurueck": week_offset -= 1; st.rerun()
PrevOffset(off) == off - 1
PrevWeek ==
    /\ HasFamily
    /\ week_offset > -MaxOffset
    /\ \E o \in PassOutcomes(db, PrevOffset(week_offset), schedule_filter, Options,
                             delete_event_id) :
          Finish(o, PrevOffset(week_offset), "prev_week", net_clicks - 1)

\* faulty variant: the next button skips a week
NextOffsetSkips(off) == off + 2

\* "Weiter": week_offset += 1; st.rerun()
NextOffset(off) == off + 1
NextWeek ==
    /\ HasFamily
    /\ week_offset < MaxOffset
    /\ \E o \in PassOutcomes(db, NextOffset(week_offset), schedule_filter, Options,
                             delete_event_id) :
          Finish(o, NextOffset(week_offset), "next_week", net_clicks + 1)

\* "Zurueck zu heute", rendered only when week_offset != 0: week_offset = 0; st.rerun()
TodayOffset(off) == 0
BackToToday ==
    /\ HasFamily
    /\ week_offset # 0
    /\ \E o \in PassOutcomes(db, TodayOffset(week_offset), schedule_filter, Options,
                             delete_event_id) :
          Finish(o, TodayOffset(week_offset), "today_btn", 0)

\* the user changes the selection of the person multiselect
SetPersonFilter ==
    /\ HasFamily
    /\ schedule_filter.present
    /\ \E names \in SUBSET Options :
          /\ names # schedule_filter.value
          /\ \E o \in PassOutcomes(db, week_offset, Selection(names), Options,
                                    delete_event_id) :
                Finish(o, week_offset, "schedule_filter", net_clicks)

\* a render that raised shows the exception in place of the grid: no row
NoGrid == <<>>

\* calendar_html as the page shows it: the grid built from the locals of the render
grid == IF raised THEN NoGrid ELSE Grid(events, week_start, filter_person)

\* a click on an event block posts its id as delete_event_id
PlacedEvents == UNION {Range(grid[k][i]) : k \in DOMAIN grid, i \in DayColumns}
PostDelete ==
    /\ HasFamily
    /\ \E e \in PlacedEvents :
          \E o \in PassOutcomes(db, week_offset, schedule_filter, Options, e.id) :
             Finish(o, week_offset, "delete_event_id", net_clicks)

\* midnight passes, up to the date last
TickUntil(last) ==
    /\ clock < last
    /\ clock' = clock + 1
    /\ UNCHANGED <<db, session, view, last_click, net_clicks, account, shown,
                   event_title, calls, tasks>>

Tick == TickUntil(FirstDay + DaysModelled)

\* the script runs of one day; midnight passes in SpecNav and SpecForeign
Next ==
    \/ Render
    \/ CreateEvent
    \/ PrevWeek
    \/ NextWeek
    \/ BackToToday
    \/ SetPersonFilter
    \/ PostDelete

Spec == Init /\ [][Next]_vars

(***************************************************************************)
(* Week navigation alone, started on every day of a week, over a store of  *)
(* at most one event                                                       *)
(***************************************************************************)
InitNav ==
    /\ clock \in FirstDay..(FirstDay + 6)
    /\ family_id = FAMILY_A
    /\ \E rows \in SUBSET Events :
          /\ Cardinality(rows) <= 1
          /\ \E o \in PlainPass(rows, INITIAL_WEEK_OFFSET, NoSelection, {}, Absent) :
                /\ db = o.db
                /\ delete_event_id = o.delete_event_id
                /\ schedule_filter = o.view.schedule_filter
                /\ today = o.view.today
                /\ week_start = o.view.week_start
                /\ week_end = o.view.week_end
                /\ events = o.view.events
                /\ filter_person = o.view.filter_person
                /\ load_failed = o.view.load_failed
                /\ raised = o.view.raised
                /\ calls = o.calls
    /\ week_offset = INITIAL_WEEK_OFFSET
    /\ last_click = "render"
    /\ net_clicks = 0
    /\ SignedInOnSchedule

TickNav == TickUntil(FirstDay + 7)

NextNav ==
    \/ Render
    \/ PrevWeek
    \/ NextWeek
    \/ BackToToday
    \/ TickNav

SpecNav == InitNav /\ [][NextNav]_vars

(***************************************************************************)
(* Renders and week navigation over a store that holds foreign rows; the   *)
(* user leaves the person filter alone                                     *)
(***************************************************************************)
InitForeign ==
    /\ clock \in FirstDay..(FirstDay + DaysModelled - 1)
    /\ family_id = FAMILY_A
    /\ \E rows \in SUBSET StoreRows :
          /\ Cardinality(rows) <= MaxEvents
          /\ \E o \in PlainPass(rows, INITIAL_WEEK_OFFSET, NoSelection, {}, Absent) :
                /\ db = o.db
                /\ delete_event_id = o.delete_event_id
                /\ schedule_filter = o.view.schedule_filter
                /\ today = o.view.today
                /\ week_start = o.view.week_start
                /\ week_end = o.view.week_end
                /\ events = o.view.events
                /\ filter_person = o.view.filter_person
                /\ load_failed = o.view.load_failed
                /\ raised = o.view.raised
                /\ calls = o.calls
    /\ week_offset = INITIAL_WEEK_OFFSET
    /\ last_click = "render"
    /\ net_clicks = 0
    /\ SignedInOnSchedule

NextForeign ==
    \/ Render
    \/ PrevWeek
    \/ NextWeek
    \/ BackToToday
    \/ Tick

SpecForeign == InitForeign /\ [][NextForeign]_vars

(***************************************************************************)
(* The weekly schedule when the browser posts the id of any row of the     *)
(* store as delete_event_id, not only the id of a block it shows           *)
(***************************************************************************)
PostAnyId ==
    /\ HasFamily
    /\ \E e \in db :
          \E o \in PassOutcomes(db, week_offset, schedule_filter, Options, e.id) :
             Finish(o, week_offset, "delete_event_id", net_clicks)

NextPosted ==
    \/ Render
    \/ PrevWeek
    \/ NextWeek
    \/ PostDelete
    \/ PostAnyId

SpecPosted == Init /\ [][NextPosted]_vars

(***************************************************************************)
(* main(): login, logout and the pages of the sidebar                      *)
(***************************************************************************)
\* what the pages other than the weekly schedule leave alone
schedule_state == <<clock, db, week_offset, schedule_filter, delete_event_id, view,
                    net_clicks, event_title, tasks>>

\* the family_members row of an account: USER_A belongs to FAMILY_A, USER_B to none
FamilyOf(u) == IF u = USER_A THEN FAMILY_A ELSE None

\* faulty variant: the page is dispatched without looking at authenticated
MainShowsPageAlways(auth, page) == page

\* if not st.session_state.authenticated: login_page() else: sidebar and page
MainShows(auth, page) == IF auth THEN page ELSE LOGIN_PAGE

\* the page of the radio when it is rendered anew: its first option
FirstPage == Pages[1]

\* faulty variant: logout forgets the family
SignedOutKeepsFamily(fam) == [authenticated |-> FALSE, user |-> None, family_id |-> fam]

\* logout_user after sign_out() returned
SignedOut(fam) == [authenticated |-> FALSE, user |-> None, family_id |-> None]

\* the session before weekly_schedule ran for the first time
ScheduleNotYetShown ==
    /\ clock = FirstDay
    /\ db \in {rows \in SUBSET Events : Cardinality(rows) <= 1}
    /\ week_offset = INITIAL_WEEK_OFFSET
    /\ schedule_filter = NoSelection
    /\ delete_event_id = Absent
    /\ today = clock
    /\ week_start = WeekStart(clock, INITIAL_WEEK_OFFSET)
    /\ week_end = WeekEnd(week_start)
    /\ events = <<>>
    /\ filter_person = {}
    /\ load_failed = FALSE
    /\ raised = FALSE
    /\ last_click = "render"
    /\ net_clicks = 0
    /\ event_title = ""
    /\ calls = <<>>

\* the login page is shown before anybody signed in
InitAuth ==
    /\ ScheduleNotYetShown
    /\ authenticated = FALSE
    /\ user = None
    /\ family_id = None
    /\ login_result = NOT_CALLED
    /\ shown = MainShows(authenticated, FirstPage)
    /\ tasks = NewTasks

\* "Anmelden": login_user(email, password), and st.rerun() when it returned True.
\* sign_in_with_password raises, or the family_members query raises after user and
\* authenticated were set, or both return. main() calls login_page only while the
\* session is not authenticated.
Login ==
    /\ shown = LOGIN_PAGE
    /\ ~ authenticated
    /\ last_click' = "login"
    /\ calls' = <<>>
    /\ UNCHANGED schedule_state
    /\ \E u \in Users, signs_in \in BOOLEAN, loads_member \in BOOLEAN :
          IF ~ signs_in
          THEN /\ login_result' = RETURNED_FALSE
               /\ UNCHANGED <<authenticated, user, family_id, shown>>
          ELSE /\ user' = u
               /\ authenticated' = TRUE
               /\ IF ~ loads_member
                  THEN /\ login_result' = RETURNED_FALSE
                       /\ UNCHANGED <<family_id, shown>>
                  ELSE /\ login_result' = RETURNED_TRUE
                       /\ family_id' = IF FamilyOf(u) # None THEN FamilyOf(u)
                                       ELSE family_id
                       /\ shown' = MainShows(authenticated', FirstPage)

\* a run of main() that renders page: the weekly schedule of a family is the pass
\* of weekly_schedule, every other page leaves the schedule alone
ShowPage(page, click) ==
    IF page = SCHEDULE /\ family_id # None
    THEN \E o \in PassOutcomes(db, week_offset, schedule_filter, Options,
                               delete_event_id) :
            Finish(o, week_offset, click, net_clicks)
    ELSE /\ shown' = page
         /\ last_click' = click
         /\ calls' = <<>>
         /\ UNCHANGED <<schedule_state, account, family_id>>

\* "Abmelden": logout_user(), then st.rerun()
Logout ==
    /\ shown # LOGIN_PAGE
    /\ \/ /\ authenticated' = SignedOut(family_id).authenticated
          /\ user' = SignedOut(family_id).user
          /\ family_id' = SignedOut(family_id).family_id
          /\ shown' = MainShows(authenticated', shown)
          /\ last_click' = "logout"
          /\ calls' = <<>>
          /\ UNCHANGED <<schedule_state, login_result>>
       \/ ShowPage(MainShows(authenticated, shown), "logout")

\* the radio of the sidebar
SelectPage ==
    /\ shown # LOGIN_PAGE
    /\ \E page \in Range(Pages) : ShowPage(MainShows(authenticated, page), "page")

\* a run of main() that no button started, while the login page is shown
RenderMain ==
    /\ shown = LOGIN_PAGE
    /\ ShowPage(MainShows(authenticated, FirstPage), "render")

NextAuth ==
    \/ Login
    \/ Logout
    \/ SelectPage
    \/ RenderMain
    \/ Render
    \/ NextWeek

SpecAuth == InitAuth /\ [][NextAuth]_vars

(***************************************************************************)
(* kanban_board(): the tasks of the family in three columns                *)
(***************************************************************************)
\* tasks[t] of a task that is not stored
NO_TASK == "no task"

INDEX_ERROR == "IndexError"

\* seq[i] of a Python list: counted from 0, a negative index counts from the end
PyItem(seq, i) ==
    IF i >= 0 /\ i < Len(seq) THEN seq[i + 1]
    ELSE IF i < 0 /\ 0 - i <= Len(seq) THEN seq[Len(seq) + i + 1]
    ELSE INDEX_ERROR

\* statuses.index(status)
StatusIndex(status) == CHOOSE i \in 0..(Len(statuses) - 1) : statuses[i + 1] = status

\* status_tasks = [t for t in tasks if t['status'] == status]
status_tasks(status) == {t \in TaskIds : tasks[t] = status}

\* the tasks that stand in one of the three columns
OnBoard == UNION {status_tasks(statuses[i]) : i \in DOMAIN statuses}

\* faulty variant: the left button is offered in every column
LeftAvailableEverywhere(status) == TRUE

\* if status != "To-Do" and st.button("◀", ...)
LeftAvailable(status) == status # "To-Do"

\* if status != "Done" and st.button("▶", ...)
RightAvailable(status) == status # "Done"

UpdateCall(status) == StoreCall("update", status)

OnKanban == authenticated /\ shown = KANBAN /\ family_id # None

\* the session on the Kanban page of family A
InitKanban ==
    /\ ScheduleNotYetShown
    /\ authenticated = TRUE
    /\ user = USER_A
    /\ family_id = FAMILY_A
    /\ login_result = RETURNED_TRUE
    /\ shown = KANBAN
    /\ tasks = NewTasks

\* the end of a run of kanban_board
KanbanDone(rows, click, made) ==
    /\ tasks' = rows
    /\ last_click' = click
    /\ calls' = made
    /\ UNCHANGED <<clock, db, session, view, net_clicks, account, shown, event_title>>

\* the run of a click on a move button of task t that writes statuses[idx + by]:
\* the tasks are loaded, the button is evaluated in the column the task stands in,
\* the update is not guarded by a try
Move(t, available, by, click) ==
    \E loads \in BOOLEAN, ok \in BOOLEAN :
        LET status == tasks[t]
            target == PyItem(statuses, StatusIndex(status) + by)
        IN  IF ~ loads \/ t \notin OnBoard \/ ~ available
            THEN KanbanDone(tasks, click, <<>>)
            ELSE IF target = INDEX_ERROR
            THEN KanbanDone(tasks, click, <<>>)
            ELSE KanbanDone(IF ok THEN [tasks EXCEPT ![t] = target] ELSE tasks,
                            click, <<UpdateCall(target)>>)

MoveLeft ==
    /\ OnKanban
    /\ \E t \in OnBoard : Move(t, LeftAvailable(tasks[t]), -1, "left")

MoveRight ==
    /\ OnKanban
    /\ \E t \in OnBoard : Move(t, RightAvailable(tasks[t]), 1, "right")

\* the delete button of a task
DeleteTask ==
    /\ OnKanban
    /\ \E t \in OnBoard, ok \in BOOLEAN :
          KanbanDone(IF ok THEN [tasks EXCEPT ![t] = NO_TASK] ELSE tasks, "del",
                     <<DeleteCall(t)>>)

\* "Aufgabe erstellen": the new task starts in To-Do
CreateTask ==
    /\ OnKanban
    /\ \E t \in TaskIds \ OnBoard, ok \in BOOLEAN :
          /\ tasks[t] = NO_TASK
          /\ KanbanDone(IF ok THEN [tasks EXCEPT ![t] = "To-Do"] ELSE tasks, "task",
                        <<InsertCall>>)

\* a run of kanban_board that no button started
RenderKanban ==
    /\ OnKanban
    /\ KanbanDone(tasks, "render", <<>>)

NextKanban ==
    \/ MoveLeft
    \/ MoveRight
    \/ DeleteTask
    \/ CreateTask
    \/ RenderKanban

SpecKanban == InitKanban /\ [][NextKanban]_vars

(***************************************************************************)
(* Vocabulary of the properties                                            *)
(***************************************************************************)
\* the value of a digit character
DigitVal(c) == CharRank(c) - 1
\* hour*60 + minute of a well-formed "HH:MM[:SS]" string
ToMinutes(t) ==
    (DigitVal(t[1]) * 10 + DigitVal(t[2])) * 60 + DigitVal(t[4]) * 10 + DigitVal(t[5])
StartMinutes(e) == ToMinutes(e.start_time)
EndMinutes(e) == ToMinutes(e.end_time)

\* the display window of the grid: the labels of its first and last row
WindowStartMinutes == ToMinutes(time_slots[1])
WindowEndMinutes == ToMinutes(time_slots[Len(time_slots)])

\* e lies in the week window of the render
InWindow(e) == week_start <= e.event_date /\ e.event_date <= week_end
\* e is shown in some cell of the grid
Placed(e) == e \in PlacedEvents
\* e is shown in day column i
InColumn(e, i) == \E k \in DOMAIN grid : e \in Range(grid[k][i])
\* the loaded events
Loaded == Range(events)
\* the step is a script run started by widget w (a script run leaves the clock alone,
\* midnight leaves last_click alone)
RunStartedBy(w) == clock' = clock /\ last_click' = w
NavigationButtons == {"prev_week", "next_week", "today_btn"}
\* ws is the Monday on or before td
MondayOnOrBefore(ws, td) == Weekday(ws) = 0 /\ ws <= td /\ td - ws <= 6

(***************************************************************************)
(* C1: an event is shown in the weekly grid if and only if its date lies   *)
(* in the week window and the person allow-list is empty or holds its      *)
(* person; nothing else about the event (its start hour) decides it.       *)
(***************************************************************************)
C1_ShownIffInWindowAndPersonAllowed ==
    \A e \in Loaded :
        Placed(e) <=> (InWindow(e) /\ PersonPasses(e, filter_person))

(***************************************************************************)
(* C2: an event of the week that starts before the display window start    *)
(* (06:00) or ends after the display window end is still placed in the     *)
(* grid; it is never dropped because of its time of day.                   *)
(***************************************************************************)
C2_OutsideDisplayWindowStillPlaced ==
    \A e \in Loaded :
        ( /\ InWindow(e)
          /\ PersonPasses(e, filter_person)
          /\ (StartMinutes(e) < WindowStartMinutes \/ EndMinutes(e) > WindowEndMinutes) )
        => Placed(e)

(***************************************************************************)
(* C3: for every date today, the week start at offset 0 is the Monday on   *)
(* or before today, and the week start at offset n+1 is the week start at  *)
(* offset n plus exactly 7 days.                                           *)
(***************************************************************************)
C3_WeekStartIsMondayAndStepsBySeven ==
    /\ week_offset = 0 => MondayOnOrBefore(week_start, today)
    /\ \A td \in (FirstDay - 7)..(FirstDay + DaysModelled + 7) :
          /\ MondayOnOrBefore(WeekStart(td, 0), td)
          /\ \A n \in (-MaxOffset - 1)..MaxOffset :
                WeekStart(td, n + 1) = WeekStart(td, n) + 7

C3_Witness ==
    /\ week_offset = 0
    /\ last_click = "today_btn"
    /\ Weekday(today) = 6
    /\ week_start = today - 6

(***************************************************************************)
(* C4: in every state reached by previous-week, next-week and              *)
(* back-to-today actions, from any today, the week window starts on a      *)
(* Monday and ends exactly 6 days later, on a Sunday.                      *)
(***************************************************************************)
C4_WindowIsMondayToSunday ==
    /\ Weekday(week_start) = 0
    /\ week_end = week_start + 6
    /\ Weekday(week_end) = 6

C4_Witness ==
    /\ last_click = "prev_week"
    /\ week_offset = -1
    /\ week_start = WeekStart(today, 0) - 7
    /\ Weekday(week_start) = 0

C6_OffsetStartsAtZeroAndSurvives ==
    /\ week_offset = 0
    /\ [][ (~ \E b \in NavigationButtons : RunStartedBy(b))
              => week_offset' = week_offset ]_vars

C6_Witness ==
    /\ last_click = "delete_event_id"
    /\ week_offset # 0
    /\ delete_event_id = None

(***************************************************************************)
(* Vocabulary of the layout properties                                     *)
(***************************************************************************)
\* the [start, end) intervals of a and b overlap
Overlap(a, b) == StartMinutes(a) < EndMinutes(b) /\ StartMinutes(b) < EndMinutes(a)
SameTimes(a, b) == StartMinutes(a) = StartMinutes(b) /\ EndMinutes(a) = EndMinutes(b)
\* the events of the week that pass the person filter
Filtered == {e \in Loaded : InWindow(e) /\ PersonPasses(e, filter_person)}
\* the events shown in day column i
ColumnEvents(i) == {e \in Loaded : InColumn(e, i)}
\* where the block of a placed event is: time slot, day column, position in the cell
BlockPos(e) ==
    CHOOSE p \in (DOMAIN grid) \X DayColumns \X (1..Len(events)) :
        /\ p[3] <= Len(grid[p[1]][p[2]])
        /\ grid[p[1]][p[2]][p[3]] = e

\* the order of lane assignment: ascending start, ties by id
IdRank(e) == CHOOSE k \in 1..Len(EventPool) : EventPool[k].id = e.id
Before(a, b) ==
    \/ StartMinutes(a) < StartMinutes(b)
    \/ StartMinutes(a) = StartMinutes(b) /\ IdRank(a) < IdRank(b)
Sorted(S) ==
    CHOOSE q \in [1..Cardinality(S) -> S] :
        \A j, k \in 1..Cardinality(S) : j < k => Before(q[j], q[k])

\* greedy lanes of q[k], q[k+1], ...: ends[L] is the end of the last event of lane L-1
RECURSIVE GreedyLanes(_, _, _)
GreedyLanes(q, k, ends) ==
    IF k > Len(q) THEN <<>>
    ELSE LET free == {L \in 1..Len(ends) : ends[L] <= StartMinutes(q[k])}
             lane == IF free = {} THEN Len(ends) + 1
                     ELSE CHOOSE L \in free : \A M \in free : L <= M
             ends2 == IF lane > Len(ends) THEN Append(ends, EndMinutes(q[k]))
                      ELSE [ends EXCEPT ![lane] = EndMinutes(q[k])]
         IN  <<lane - 1>> \o GreedyLanes(q, k + 1, ends2)

\* the overlapping cluster of the events R within S
RECURSIVE Cluster(_, _)
Cluster(R, S) ==
    LET R2 == R \cup {x \in S : \E y \in R : Overlap(x, y)}
    IN  IF R2 = R THEN R ELSE Cluster(R2, S)

SetMax(S) == CHOOSE m \in S : \A x \in S : x <= m
\* end - start, in minutes
Duration(e) == EndMinutes(e) - StartMinutes(e)

(***************************************************************************)
(* C7: within one day column, two events whose [start, end) intervals      *)
(* overlap are assigned different lanes, and two events with identical     *)
(* start and end times are both placed as distinct, separately visible     *)
(* blocks in distinct lanes.                                               *)
(***************************************************************************)
C7_OverlappingEventsInDifferentLanes ==
    \A a, b \in Filtered :
        (a # b /\ a.event_date = b.event_date) =>
            /\ (Placed(a) /\ Placed(b) /\ Overlap(a, b)) => BlockLane(a) # BlockLane(b)
            /\ SameTimes(a, b) =>
                  /\ Placed(a) /\ Placed(b)
                  /\ BlockPos(a) # BlockPos(b)
                  /\ BlockLane(a) # BlockLane(b)

(***************************************************************************)
(* C8: lane assignment in a day column is greedy (ascending start, ties by *)
(* id; the lowest lane whose last event ends at or before the start, else  *)
(* a new lane), and laneCount of an event is the highest lane index of its *)
(* overlapping cluster plus 1; [09:00,10:00), [09:30,10:30), [11:00,12:00) *)
(* on one day get lanes 0, 1, 0 and laneCount 2, 2, 1.                     *)
(***************************************************************************)
C8_GreedyLanesAndLaneCount ==
    \A i \in DayColumns :
        LET S == ColumnEvents(i)
            q == Sorted(S)
            lanes == GreedyLanes(q, 1, <<>>)
        IN  /\ \A k \in 1..Len(q) :
                  /\ BlockLane(q[k]) = lanes[k]
                  /\ BlockLaneCount(q[k]) =
                        1 + SetMax({lanes[j] : j \in {x \in 1..Len(q) :
                                                       q[x] \in Cluster({q[k]}, S)}})
            /\ \A a, b, c \in S :
                  ( /\ StartMinutes(a) = 540 /\ EndMinutes(a) = 600
                    /\ StartMinutes(b) = 570 /\ EndMinutes(b) = 630
                    /\ StartMinutes(c) = 660 /\ EndMinutes(c) = 720
                    /\ Cardinality(S) = 3 )
                  => /\ <<BlockLane(a), BlockLane(b), BlockLane(c)>> = <<0, 1, 0>>
                     /\ <<BlockLaneCount(a), BlockLaneCount(b), BlockLaneCount(c)>>
                           = <<2, 2, 1>>

(***************************************************************************)
(* C9: for placed events with end > start the block height is strictly     *)
(* proportional to end - start: twice the duration gives exactly twice the *)
(* height.                                                                 *)
(***************************************************************************)
C9_HeightProportionalToDuration ==
    \A a, b \in PlacedEvents :
        (Duration(a) > 0 /\ Duration(b) > 0) =>
            /\ BlockHeight(a) * Duration(b) = BlockHeight(b) * Duration(a)
            /\ Duration(b) = 2 * Duration(a) => BlockHeight(b) = 2 * BlockHeight(a)

(***************************************************************************)
(* C10: each event of the week is placed in exactly the day column i       *)
(* (0..6) with week_start + i = its date and in no other column; an event  *)
(* dated outside the 7 days is in no column.                               *)
(***************************************************************************)
C10_EachEventInTheColumnOfItsDate ==
    /\ \A e \in Filtered : \A i \in DayColumns :
          InColumn(e, i) <=> e.event_date = week_start + i
    /\ \A e \in Events : ~ InWindow(e) => ~ \E i \in DayColumns : InColumn(e, i)

(***************************************************************************)
(* Vocabulary of the properties on times of day                            *)
(***************************************************************************)
\* t reads "HH:MM..." with HH <= 23 and MM <= 59
WellFormedTime(t) ==
    /\ t # NullTime
    /\ Len(t) >= 5
    /\ t[3] = ":"
    /\ \A k \in {1, 2, 4, 5} : t[k] \in Range(Digits)
    /\ DigitVal(t[1]) * 10 + DigitVal(t[2]) <= 23
    /\ DigitVal(t[4]) * 10 + DigitVal(t[5]) <= 59
Malformed(e) == ~ WellFormedTime(e.start_time) \/ ~ WellFormedTime(e.end_time)
\* e starts within the hours the grid has rows for
StartsInRows(e) ==
    /\ WindowStartMinutes <= StartMinutes(e)
    /\ StartMinutes(e) < WindowEndMinutes + 60

(***************************************************************************)
(* C11: building the grid never raises because of a malformed start or end *)
(* time on one event (null, out of range): that event is left out of the   *)
(* grid and every other event of the week is still placed.                 *)
(***************************************************************************)
C11_MalformedTimeNeverRaises ==
    \A m \in Filtered :
        Malformed(m) =>
            /\ ~ raised
            /\ ~ Placed(m)
            /\ \A e \in Filtered \ {m} :
                  (~ Malformed(e) /\ StartsInRows(e)) => Placed(e)

\* the shortest duration a block is drawn for, in minutes
MIN_DURATION_MINUTES == 15
\* no loaded event has a malformed time
AllWellFormed == \A e \in Loaded : ~ Malformed(e)

(***************************************************************************)
(* C12: an event whose end time is earlier than or equal to its start time *)
(* is still placed in the grid, with its duration clamped to the 15-minute *)
(* minimum (its block is as high as that of a 15-minute event), and        *)
(* placing it never raises.                                                *)
(***************************************************************************)
C12_EndNotAfterStartClampedToMinimum ==
    AllWellFormed =>
        \A e \in Filtered :
            (StartsInRows(e) /\ Duration(e) <= 0) =>
                /\ ~ raised
                /\ Placed(e)
                /\ \A x \in PlacedEvents :
                      Duration(x) >= MIN_DURATION_MINUTES =>
                          BlockHeight(e) * Duration(x) = BlockHeight(x) * MIN_DURATION_MINUTES

\* the time of day the block of a placed event stands at, in minutes after the
\* first row: the block is in the cell of the row labelled with its start hour
BlockOffsetMinutes(e) == ToMinutes(time_slots[BlockPos(e)[1]]) - ToMinutes(time_slots[1])
Max(a, b) == IF a >= b THEN a ELSE b

(***************************************************************************)
(* C13: for every placed event the vertical offset is                      *)
(* max(0, startMinutes - windowStart), so it is never negative, and the    *)
(* height is never truncated at the window end; an event 09:00-10:30 with  *)
(* window start 06:00 stands at offset 180 with a height of 90 minutes     *)
(* (one and a half times the height of a 60-minute event).                 *)
(***************************************************************************)
C13_OffsetFromWindowStartHeightNotTruncated ==
    \A e \in PlacedEvents :
        /\ BlockOffsetMinutes(e) = Max(0, StartMinutes(e) - WindowStartMinutes)
        /\ BlockOffsetMinutes(e) >= 0
        /\ \A x \in PlacedEvents :
              (Duration(e) > 0 /\ Duration(x) > 0) =>
                  BlockHeight(e) * Duration(x) = BlockHeight(x) * Duration(e)
        /\ (StartMinutes(e) = 540 /\ EndMinutes(e) = 630) =>
              /\ BlockOffsetMinutes(e) = 180
              /\ \A x \in PlacedEvents :
                    Duration(x) = 60 => 2 * BlockHeight(e) = 3 * BlockHeight(x)

C16_EmptyEventSetGivesEmptyGrid ==
    events = <<>> =>
        /\ ~ raised
        /\ filter_person = {}
        /\ Len(grid) >= 1
        /\ DOMAIN grid = DOMAIN time_slots
        /\ \A k \in DOMAIN grid :
              /\ DOMAIN grid[k] = 0..6
              /\ \A i \in 0..6 : grid[k][i] = <<>>
        /\ PlacedEvents = {}

C16_Witness ==
    /\ events = <<>>
    /\ db = {}
    /\ ~ load_failed
    /\ last_click = "delete_event_id"
    /\ Len(grid) = Len(time_slots)

(***************************************************************************)
(* C17: when loading the week's events from the store fails, the render    *)
(* continues with an empty event list: the navigation (the week of the     *)
(* current offset) and the grid are still rendered with no block, nothing  *)
(* raises, and the failing run leaves the week offset as it is unless a    *)
(* navigation button started it.                                           *)
(***************************************************************************)
C17_LoadFailureRendersEmptyWeek ==
    /\ [](load_failed =>
            /\ events = <<>>
            /\ ~ raised
            /\ week_start = WeekStart(today, week_offset)
            /\ week_end = week_start + 6
            /\ DOMAIN grid = DOMAIN time_slots
            /\ PlacedEvents = {})
    /\ [][ (load_failed' /\ clock' = clock /\ last_click' \notin NavigationButtons)
              => week_offset' = week_offset ]_vars

C17_Witness ==
    /\ load_failed
    /\ week_offset = 1
    /\ last_click = "render"
    /\ \E e \in db : e.family_id = family_id /\ InWindow(e)

(***************************************************************************)
(* C18: filtering is idempotent: applying the week and person filter to an *)
(* already filtered event set, with the same window and the same allowed   *)
(* persons, returns the same events (the store query over the loaded       *)
(* events, and the cell filter over the events of a cell).                 *)
(***************************************************************************)
C18_FilteringIsIdempotent ==
    /\ \A q \in QueryResults(Loaded, family_id, week_start, week_end) :
          Range(q) = Loaded
    /\ \A k \in DOMAIN grid : \A i \in DayColumns :
          DayEvents(grid[k][i], week_start, filter_person, k, i) = grid[k][i]

C18_Witness ==
    /\ ~ raised
    /\ \E k \in DOMAIN grid : \E i \in DayColumns : Len(grid[k][i]) = 2
    /\ \E e \in Loaded : ~ PersonPasses(e, filter_person)

\* a person value without leading and trailing blanks, for the values of the model
Trim(p) ==
    CASE p = " Anna" -> "Anna"
      [] p = " "     -> ""
      [] OTHER       -> p

(***************************************************************************)
(* C19: the set of persons offered in the filter control is exactly the    *)
(* set of trimmed, non-empty person values of the week's events, with no   *)
(* duplicates and never the empty string; for persons "Anna", "", "Ben",   *)
(* "Anna" it is exactly {"Anna", "Ben"}.                                   *)
(***************************************************************************)
C19_PersonOptionsTrimmedNonEmpty ==
    /\ Options = {Trim(e.person) : e \in Loaded} \ {""}
    /\ "" \notin Options
    /\ {e.person : e \in Loaded} = {"Anna", "", "Ben"} => Options = {"Anna", "Ben"}

(***************************************************************************)
(* C20: when the user has not changed the person filter, the filter in     *)
(* effect is the set of all known persons of the current event set, and    *)
(* the empty list when no event has a person.                              *)
(***************************************************************************)
C20_UntouchedFilterIsAllPersons ==
    /\ filter_person = {e.person : e \in Loaded} \ {""}
    /\ (\A e \in Loaded : e.person = "") => filter_person = {}

C20_Witness ==
    /\ last_click \in NavigationButtons
    /\ Cardinality(filter_person) = 2
    /\ \E e \in Loaded : e.person = ""

\* the events the page lists below the grid, in the order listed: section 5 writes
\* calendar_html into one component and nothing else, so no event is listed
FlatList == <<>>

(***************************************************************************)
(* C21: besides the grid, the weekly schedule renders a flat list of the   *)
(* same filtered events sorted by (date, start minutes).                   *)
(***************************************************************************)
C21_FlatListOfFilteredEventsSorted ==
    ~ raised =>
        /\ Range(FlatList) = Filtered
        /\ Len(FlatList) = Cardinality(Filtered)
        /\ \A j, k \in 1..Len(FlatList) :
              j < k =>
                  \/ FlatList[j].event_date < FlatList[k].event_date
                  \/ /\ FlatList[j].event_date = FlatList[k].event_date
                     /\ StartMinutes(FlatList[j]) <= StartMinutes(FlatList[k])

\* the operations of the store calls of the last script run
CallOps == {calls[k].op : k \in 1..Len(calls)}

(***************************************************************************)
(* C23: creating an event with an empty title is rejected: pressing the    *)
(* create button with an empty title issues no insert to the store and     *)
(* leaves the stored events unchanged.                                     *)
(***************************************************************************)
C23_EmptyTitleIssuesNoInsert ==
    /\ []((last_click = "create" /\ event_title = "") => "insert" \notin CallOps)
    /\ [][ (RunStartedBy("create") /\ event_title' = "") => db' = db ]_vars

C23_Witness ==
    /\ last_click = "create"
    /\ event_title = ""
    /\ db # {}
    /\ CallOps = {"select"}

\* the rows of the store the query of the render selects
ShownRows == {e \in db : e.family_id = family_id /\ InWindow(e)}
\* the widgets that carry a create, delete or navigation intent
IntentWidgets == {"create", "delete_event_id"} \cup NavigationButtons

FamilyRows == {e \in Events : e.family_id = family_id}

(***************************************************************************)
(* C24: every store operation issued by the weekly schedule (listing,      *)
(* creating and deleting events) is scoped to the session's one family: it *)
(* reads, adds and removes only events whose family_id equals the          *)
(* session's family_id.                                                    *)
(***************************************************************************)
C24_StoreOperationsScopedToFamily ==
    /\ [](Loaded \subseteq FamilyRows)
    /\ [][ /\ (db' \ db) \subseteq FamilyRows
           /\ (db \ db') \subseteq FamilyRows ]_vars

(***************************************************************************)
(* C29: an event with an empty person is excluded from the grid whenever   *)
(* the person filter in effect is non-empty; so under the default filter   *)
(* an unassigned event of the displayed week is shown only if no event of  *)
(* that week has a person.                                                 *)
(***************************************************************************)
C29_UnassignedExcludedByNonEmptyFilter ==
    \A e \in Loaded :
        e.person = "" =>
            /\ filter_person # {} => ~ Placed(e)
            /\ Placed(e) => \A x \in Loaded : x.person = ""

C29_Witness ==
    /\ ~ raised
    /\ filter_person = {"Anna", "Ben"}
    /\ \E e \in Loaded : e.person = "" /\ StartsInRows(e) /\ ~ Placed(e)
    /\ \E x \in Loaded : x.person = "Anna" /\ Placed(x)

\* the delete calls of the last script run
DeleteCalls == {k \in 1..Len(calls) : calls[k].op = "delete"}

(***************************************************************************)
(* C28: a delete request posted into the session state as delete_event_id  *)
(* causes at most one delete call to the store: the flag is cleared before *)
(* the delete is issued, so it is never pending after the run that         *)
(* processed it, whether the delete failed or not, and a run with no       *)
(* posting issues no delete.                                               *)
(***************************************************************************)
C28_PostedDeleteIssuedAtMostOnce ==
    /\ Cardinality(DeleteCalls) <= 1
    /\ delete_event_id \in {Absent, None}
    /\ last_click # "delete_event_id" => DeleteCalls = {}
    /\ \A k \in DeleteCalls : \A e \in db : e.id = calls[k].arg => k = Len(calls)

C28_Witness ==
    /\ last_click = "delete_event_id"
    /\ delete_event_id = Absent
    /\ Cardinality(DeleteCalls) = 1
    /\ \E e \in db : e.id = calls[Len(calls)].arg

\* C25: whenever login_user returned False, whether the sign-in was rejected or a
\* later step of the login failed, the session is not authenticated and holds no
\* user afterwards.
C25_FailedLoginLeavesSessionUnauthenticated ==
    (last_click = "login" /\ login_result = RETURNED_FALSE)
        => (authenticated = FALSE /\ user = None)

\* C26: a data page, and with it the logout control, is rendered only in an
\* authenticated session; a session that is not authenticated shows the login
\* page and nothing else.
C26_PagesOnlyWhenAuthenticated ==
    /\ shown \in Range(Pages) => authenticated
    /\ ~ authenticated => shown = LOGIN_PAGE

C26_Witness ==
    /\ last_click = "logout"
    /\ ~ authenticated
    /\ shown = LOGIN_PAGE
    /\ login_result = RETURNED_TRUE

\* C27: after every login, logout and render a session that is not authenticated
\* holds neither a user nor a family; a logout whose sign_out raised, after which
\* the session is still authenticated, changed none of authenticated, user and
\* family_id.
C27_SignedOutSessionHoldsNoUserNoFamily ==
    /\ [](~ authenticated => user = None /\ family_id = None)
    /\ [][(last_click' = "logout" /\ authenticated')
            => UNCHANGED <<authenticated, user, family_id>>]_vars

C27_Witness ==
    /\ last_click = "logout"
    /\ authenticated
    /\ user = USER_A
    /\ family_id = FAMILY_A

\* position of a status among the columns, 0 for a value that has no column
ColumnOf(status) ==
    IF \E i \in DOMAIN statuses : statuses[i] = status
    THEN StatusIndex(status) + 1
    ELSE 0

\* C30: a run started by a move button writes only To-Do, In Progress or Done;
\* it changes at most the one task, from a column to the column next to it: one
\* position to the left for the left button, one to the right for the right
\* button, never from To-Do to Done or from Done to To-Do, and never out of To-Do
\* to the left or out of Done to the right.
C30_MoveButtonsStepToAdjacentColumn ==
    [][last_click' \in {"left", "right"} =>
         /\ \A i \in DOMAIN calls' :
               /\ calls'[i].op = "update"
               /\ calls'[i].arg \in Range(statuses)
         /\ Cardinality({t \in TaskIds : tasks'[t] # tasks[t]}) <= 1
         /\ \A t \in TaskIds :
               tasks'[t] # tasks[t] =>
                 /\ ColumnOf(tasks[t]) # 0
                 /\ ColumnOf(tasks'[t]) # 0
                 /\ calls' = <<UpdateCall(tasks'[t])>>
                 /\ ColumnOf(tasks'[t]) =
                      ColumnOf(tasks[t]) + (IF last_click' = "left" THEN -1 ELSE 1)
         /\ calls' # <<>> /\ last_click' = "left" =>
               \E t \in TaskIds : LeftAvailable(tasks[t])
                                   /\ ColumnOf(tasks[t]) = ColumnOf(calls'[1].arg) + 1
         /\ calls' # <<>> /\ last_click' = "right" =>
               \E t \in TaskIds : RightAvailable(tasks[t])
                                   /\ ColumnOf(tasks[t]) = ColumnOf(calls'[1].arg) - 1
      ]_vars

C30_Witness ==
    /\ last_click = "left"
    /\ calls = <<UpdateCall("In Progress")>>
    /\ tasks["t1"] = "In Progress"
    /\ tasks["t2"] = "Done"

====
